---------------------------- MODULE Spec2Model ----------------------------
(***************************************************************************)
(* ServiceNow change-management adapter: the connector (connector.js, kept *)
(* as src/unnamed/part_000) and the adapter (src/main.js).                 *)
(*                                                                         *)
(* JavaScript values are tagged records.  A string is the sequence of its  *)
(* text chunks; a chunk is a piece of text that is never split: one of the *)
(* JSON punctuation characters { } [ ] : , " or a word.  The two markers   *)
(* of a hibernating instance are words, so String.prototype.includes of a  *)
(* marker is membership of that word in the sequence.                      *)
(***************************************************************************)
EXTENDS Integers, Sequences, FiniteSets, TLC

(***************************************************************************)
(* Bounds of the model.                                                    *)
(***************************************************************************)
\* the number of adapter/connector invocations one behaviour makes
MaxCalls == 2

(***************************************************************************)
(* JavaScript values.                                                      *)
(***************************************************************************)
Null == [type |-> "null"]

Undefined == [type |-> "undefined"]

Str(chunks) == [type |-> "string", chunks |-> chunks]

Arr(items) == [type |-> "array", items |-> items]

Obj(fields) == [type |-> "object", fields |-> fields]

\* an Error object handed over by the HTTP client
ErrorObject(code) == [type |-> "error", code |-> code]

\* the response object of the HTTP client: response.statusCode, response.body
Response(statusCode, body) ==
    [type |-> "response", statusCode |-> statusCode, body |-> body]

EmptyFields == [k \in {} |-> Undefined]

\* obj[k] = v
SetField(fields, k, v) ==
    [x \in (DOMAIN fields) \cup {k} |-> IF x = k THEN v ELSE fields[x]]

\* delete obj[k]
DeleteFields(fields, ks) == [x \in (DOMAIN fields) \ ks |-> fields[x]]

\* obj.k: undefined when the object has no such property
GetField(fields, k) == IF k \in DOMAIN fields THEN fields[k] ELSE Undefined

\* a property name written as an identifier in the source
Key(name) == <<name>>

\* JavaScript's ToBoolean, as used by `if (x)`
ToBoolean(v) ==
    CASE v.type = "null" -> FALSE
      [] v.type = "undefined" -> FALSE
      [] v.type = "string" -> v.chunks # <<>>
      [] OTHER -> TRUE

\* F(x), with x evaluated once
With(x, F(_)) == CHOOSE y \in { F(v) : v \in {x} } : TRUE

(***************************************************************************)
(* JSON.parse over chunk sequences: objects, arrays, strings and null.     *)
(***************************************************************************)
Quote == "\""

ParseFail == [ok |-> FALSE, val |-> Undefined, rest |-> <<>>]

ParseOk(v, rest) == [ok |-> TRUE, val |-> v, rest |-> rest]

RECURSIVE ScanString(_, _)
\* the chunks up to the closing quote; s starts after the opening quote
ScanString(s, acc) ==
    IF s = <<>> THEN ParseFail
    ELSE IF Head(s) = Quote THEN ParseOk(Str(acc), Tail(s))
    ELSE ScanString(Tail(s), Append(acc, Head(s)))

ParseString(s) ==
    IF s # <<>> /\ Head(s) = Quote THEN ScanString(Tail(s), <<>>) ELSE ParseFail

RECURSIVE ParseValue(_), ParseElements(_, _), ParseMembers(_, _)
ParseValue(s) ==
    IF s = <<>> THEN ParseFail
    ELSE CASE Head(s) = Quote -> ParseString(s)
           [] Head(s) = "null" -> ParseOk(Null, Tail(s))
           [] Head(s) = "[" ->
                IF Len(s) >= 2 /\ s[2] = "]"
                THEN ParseOk(Arr(<<>>), SubSeq(s, 3, Len(s)))
                ELSE ParseElements(Tail(s), <<>>)
           [] Head(s) = "{" ->
                IF Len(s) >= 2 /\ s[2] = "}"
                THEN ParseOk(Obj(EmptyFields), SubSeq(s, 3, Len(s)))
                ELSE ParseMembers(Tail(s), EmptyFields)
           [] OTHER -> ParseFail

ParseElements(s, acc) ==
    With(ParseValue(s), LAMBDA r :
        IF ~r.ok \/ r.rest = <<>> THEN ParseFail
        ELSE CASE Head(r.rest) = "," ->
                    ParseElements(Tail(r.rest), Append(acc, r.val))
               [] Head(r.rest) = "]" ->
                    ParseOk(Arr(Append(acc, r.val)), Tail(r.rest))
               [] OTHER -> ParseFail)

ParseMembers(s, acc) ==
    With(ParseString(s), LAMBDA k :
        IF ~k.ok \/ k.rest = <<>> \/ Head(k.rest) # ":" THEN ParseFail
        ELSE With(ParseValue(Tail(k.rest)), LAMBDA r :
            IF ~r.ok \/ r.rest = <<>> THEN ParseFail
            ELSE With(SetField(acc, k.val.chunks, r.val), LAMBDA fields :
                CASE Head(r.rest) = "," -> ParseMembers(Tail(r.rest), fields)
                  [] Head(r.rest) = "}" -> ParseOk(Obj(fields), Tail(r.rest))
                  [] OTHER -> ParseFail)))

\* JSON.parse(text): the value, or a SyntaxError thrown
JSONparse(text) ==
    With(ParseValue(text), LAMBDA r :
        IF r.ok /\ r.rest = <<>>
        THEN [threw |-> FALSE, val |-> r.val]
        ELSE [threw |-> TRUE, val |-> Undefined])

(***************************************************************************)
(* The connector.                                                          *)
(***************************************************************************)
\* effects of a call, in the order the code produces them
LogEffect(level, msg) == [kind |-> "log", level |-> level, msg |-> msg]

RequestEffect(requestOptions) == [kind |-> "request", options |-> requestOptions]

EmitEffect(event, payload) == [kind |-> "emit", event |-> event, payload |-> payload]

CallbackEffect(data, error) == [kind |-> "callback", data |-> data, error |-> error]

RECURSIVE ToDigits(_)
\* String(n) of a non-negative integer, as its decimal digits
ToDigits(n) == IF n < 10 THEN <<n>> ELSE Append(ToDigits(n \div 10), n % 10)

\* validResponseRegex.test(statusCode): /(2\d\d)/ is not anchored, so it
\* looks for a 2 followed by two digits anywhere in the numeral
validResponseRegexTest_twoDigits(statusCode) ==
    LET s == ToDigits(statusCode) IN
    \E i \in 1..(Len(s) - 1) : s[i] = 2 /\ s[i + 1] \in 0..9

validResponseRegexTest(statusCode) ==
    LET s == ToDigits(statusCode) IN
    \E i \in 1..(Len(s) - 2) : s[i] = 2 /\ s[i + 1] \in 0..9 /\ s[i + 2] \in 0..9

\* String.prototype.includes for a marker that is one chunk
Includes(text, marker) == \E i \in 1..Len(text) : text[i] = marker

HibernatingMarker == "Instance Hibernating page"

HtmlMarker == "<html>"

isHibernating_startsWithHtml(response) ==
    /\ Includes(response.body, HibernatingMarker)
    /\ response.body # <<>> /\ Head(response.body) = HtmlMarker
    /\ response.statusCode = 200

isHibernating(response) ==
    /\ Includes(response.body, HibernatingMarker)
    /\ Includes(response.body, HtmlMarker)
    /\ response.statusCode = 200

\* the fields the forEach body deletes after the two renames
DeletedFields ==
    { Key(f) : f \in {
        "number", "sys_id", "parent", "reason",
        "watch_list", "upon_reject", "sys_updated_on", "type",
        "approval_history", "test_plan", "cab_delegate", "requested_by_date",
        "state", "sys_created_by", "knowledge", "order",
        "phase", "cmdb_ci", "delivery_plan", "contract",
        "impact", "work_notes_list", "sys_domain_path", "cab_recommendation",
        "production_system", "review_date", "business_duration", "group_list",
        "requested_by", "change_plan", "approval_set", "implementation_plan",
        "approval_history", "test_plan", "correlation_display", "delivery_task",
        "additional_assignee_list", "outside_maintenance_schedule", "end_date",
        "short_description",
        "std_change_producer_version", "service_offering", "sys_class_name",
        "closed_by",
        "follow_up", "reassignment_count", "review_status", "assigned_to",
        "start_date", "sla_due", "comments_and_work_notes", "escalation",
        "upon_approval", "correlation_id", "made_sla", "backout_plan",
        "conflict_status", "sys_updated_by", "opened_by", "user_input",
        "sys_created_on", "on_hold_task", "sys_domain", "closed_at",
        "review_comments", "business_service", "time_worked", "expected_start",
        "opened_at", "phase_state", "cab_date", "work_notes",
        "close_code", "assignment_group", "on_hold_reason", "calendar_duration",
        "close_notes", "contact_type", "cab_required", "urgency",
        "scope", "company", "justification", "activity_due",
        "comments", "approval", "due_date", "sys_mod_count",
        "on_hold", "sys_tags", "conflict_last_run", "unauthorized",
        "location", "risk", "category", "risk_impact_analysis" } }

\* the forEach body on the properties of one element of the result array
normalizeFields_swapped(fields) ==
    LET renamed ==
            SetField(SetField(fields, Key("change_ticket_number"),
                              GetField(fields, Key("sys_id"))),
                     Key("change_ticket_key"), GetField(fields, Key("number")))
    IN  DeleteFields(renamed, DeletedFields)

normalizeFields_allowList(fields) ==
    SetField(SetField(EmptyFields, Key("change_ticket_number"),
                      GetField(fields, Key("number"))),
             Key("change_ticket_key"), GetField(fields, Key("sys_id")))

normalizeFields(fields) ==
    LET renamed ==
            SetField(SetField(fields, Key("change_ticket_number"),
                              GetField(fields, Key("number"))),
                     Key("change_ticket_key"), GetField(fields, Key("sys_id")))
    IN  DeleteFields(renamed, DeletedFields)

\* whether the forEach body throws on this element: a property of null or
\* undefined cannot be set, and in a class body (strict mode) neither can a
\* property of a primitive string
ElementThrows(result) == result.type \notin {"object", "array"}

\* the element after the forEach body ran on it (the body mutates in place)
normalizeResult(result) ==
    IF result.type = "object" THEN Obj(normalizeFields(result.fields))
    ELSE [type |-> "array", items |-> result.items,
          fields |-> normalizeFields(IF "fields" \in DOMAIN result
                                     THEN result.fields ELSE EmptyFields)]

\* what processRequestResults does: either it calls the callback once with
\* (data, error), or an exception leaves it before the callback is reached.
\* log: its log calls; checks: the conditions and steps it evaluated.
Returned(data, error, log, checks) ==
    [threw |-> FALSE, data |-> data, error |-> error, log |-> log, checks |-> checks]

Thrown(log, checks) ==
    [threw |-> TRUE, data |-> Undefined, error |-> Undefined, log |-> log,
     checks |-> checks]

processValidResponse_noBodyGuard(response, checks) ==
    With(JSONparse(response.body), LAMBDA jsonBody :
        LET parsed == Append(checks, "JSON.parse")
            results == IF jsonBody.val.type = "object"
                       THEN GetField(jsonBody.val.fields, Key("result"))
                       ELSE Undefined
            looped == Append(parsed, "forEach")
        IN  IF jsonBody.threw \/ jsonBody.val.type = "null" THEN Thrown(<<>>, parsed)
            ELSE IF results.type # "array" THEN Thrown(<<>>, looped)
            ELSE IF \E i \in 1..Len(results.items) : ElementThrows(results.items[i])
            THEN Thrown(<<>>, looped)
            ELSE Returned(Arr([i \in 1..Len(results.items) |->
                                  normalizeResult(results.items[i])]),
                          Null, <<>>, looped))

\* the else branch: a valid response
processValidResponse(response, checks) ==
    IF response.body = <<>> THEN Returned(Null, Null, <<>>, checks)
    ELSE With(JSONparse(response.body), LAMBDA jsonBody :
        LET parsed == Append(checks, "JSON.parse")
            results == IF jsonBody.val.type = "object"
                       THEN GetField(jsonBody.val.fields, Key("result"))
                       ELSE Undefined
            looped == Append(parsed, "forEach")
        IN  IF jsonBody.threw \/ jsonBody.val.type = "null" THEN Thrown(<<>>, parsed)
            ELSE IF results.type # "array" THEN Thrown(<<>>, looped)
            ELSE IF \E i \in 1..Len(results.items) : ElementThrows(results.items[i])
            THEN Thrown(<<>>, looped)
            ELSE Returned(Arr([i \in 1..Len(results.items) |->
                                  normalizeResult(results.items[i])]),
                          Null, <<>>, looped))

processRequestResults_hibernatingFirst(error, response, body) ==
    IF response.type = "response" /\ isHibernating(response)
    THEN Returned(Null, Str(<<"Hibernating instance">>),
                  <<LogEffect("error", "Hibernating instance")>>, <<"isHibernating">>)
    ELSE IF ToBoolean(error)
    THEN Returned(Null, error, <<LogEffect("error", "Error present.")>>,
                  <<"isHibernating", "error">>)
    ELSE IF response.type # "response" THEN Thrown(<<>>, <<"isHibernating">>)
    ELSE IF ~validResponseRegexTest(response.statusCode)
    THEN Returned(Null, response, <<LogEffect("error", "Bad response code.")>>,
                  <<"isHibernating", "error", "validResponseRegex">>)
    ELSE processValidResponse(response,
             <<"isHibernating", "error", "validResponseRegex", "response.body">>)

processRequestResults(error, response, body) ==
    IF ToBoolean(error)
    THEN Returned(Null, error, <<LogEffect("error", "Error present.")>>, <<"error">>)
    \* response.body of a response that is not an object
    ELSE IF response.type # "response" THEN Thrown(<<>>, <<"error", "isHibernating">>)
    ELSE IF isHibernating(response)
    THEN Returned(Null, Str(<<"Hibernating instance">>),
                  <<LogEffect("error", "Hibernating instance")>>,
                  <<"error", "isHibernating">>)
    ELSE IF ~validResponseRegexTest(response.statusCode)
    THEN Returned(Null, response, <<LogEffect("error", "Bad response code.")>>,
                  <<"error", "isHibernating", "validResponseRegex">>)
    ELSE processValidResponse(response,
             <<"error", "isHibernating", "validResponseRegex", "response.body">>)

\* constructUri(query): the table API path, with the query string when given
constructUri(options, query) ==
    LET path == <<"/api/now/table/">> \o GetField(options, Key("serviceNowTable")).chunks
        uri == IF ToBoolean(query) THEN path \o <<"?">> \o query.chunks ELSE path
    IN  [uri |-> Str(uri), log |-> <<LogEffect("debug", "URI")>>]

\* sendRequest up to and including the one call of request(requestOptions, ...)
sendRequest_twice(options, callOptions) ==
    LET built == constructUri(options, GetField(callOptions, Key("query")))
        requestOptions ==
            [method |-> GetField(callOptions, Key("method")),
             auth |-> [user |-> GetField(options, Key("username")),
                       pass |-> GetField(options, Key("password"))],
             baseUrl |-> GetField(options, Key("url")),
             uri |-> built.uri]
    IN  built.log \o <<RequestEffect(requestOptions), RequestEffect(requestOptions)>>

sendRequest(options, callOptions) ==
    LET built == constructUri(options, GetField(callOptions, Key("query")))
        requestOptions ==
            [method |-> GetField(callOptions, Key("method")),
             auth |-> [user |-> GetField(options, Key("username")),
                       pass |-> GetField(options, Key("password"))],
             baseUrl |-> GetField(options, Key("url")),
             uri |-> built.uri]
    IN  built.log \o <<RequestEffect(requestOptions)>>

\* post(callback): a copy of the options with method POST, then sendRequest
post(options) == sendRequest(options, SetField(options, Key("method"), Str(<<"POST">>)))

\* get(callback): a copy of the options with method GET, then sendRequest
get(options) == sendRequest(options, SetField(options, Key("method"), Str(<<"GET">>)))

\* this.options after post(callback): { ...this.options } is a new object
\* and method is set on that copy, so the connector's own object is as before
optionsAfterPost_inPlace(options) == SetField(options, Key("method"), Str(<<"POST">>))

optionsAfterPost(options) == options

\* this.options after get(callback), likewise
optionsAfterGet(options) == options

(***************************************************************************)
(* The adapter.                                                            *)
(***************************************************************************)
\* emitStatus(status): this.emit(status, {id: this.id})
emitStatus(id, status) == <<EmitEffect(status, [id |-> id])>>

emitOffline_online(id) ==
    emitStatus(id, "ONLINE") \o <<LogEffect("warn", "ServiceNow: Instance is unavailable.")>>

emitOffline(id) ==
    emitStatus(id, "OFFLINE") \o <<LogEffect("warn", "ServiceNow: Instance is unavailable.")>>

emitOnline_offline(id) ==
    emitStatus(id, "OFFLINE") \o <<LogEffect("info", "ServiceNow: Instance is available.")>>

emitOnline(id) ==
    emitStatus(id, "ONLINE") \o <<LogEffect("info", "ServiceNow: Instance is available.")>>

\* the callback healthcheck hands to getRecord, run on the connector's
\* (result, error); hasCallback: healthcheck was given a callback
healthcheckResult_resultOnly(id, hasCallback, result, error) ==
    IF ToBoolean(error)
    THEN <<[kind |-> "log", level |-> "error",
            msg |-> "Error with external system with ID", id |-> id]>>
         \o emitOffline(id)
         \o (IF hasCallback THEN <<CallbackEffect(result, error)>> ELSE <<>>)
    ELSE <<LogEffect("debug", "External system is available and healthy!")>>
         \o emitOnline(id)
         \o (IF hasCallback THEN <<CallbackEffect(result, Undefined)>> ELSE <<>>)

healthcheckResult(id, hasCallback, result, error) ==
    IF ToBoolean(error)
    THEN <<[kind |-> "log", level |-> "error",
            msg |-> "Error with external system with ID", id |-> id]>>
         \o emitOffline(id)
         \o (IF hasCallback THEN <<CallbackEffect(result, error)>> ELSE <<>>)
    ELSE <<LogEffect("debug", "External system is available and healthy!")>>
         \o emitOnline(id)
         \o (IF hasCallback THEN <<CallbackEffect(result, error)>> ELSE <<>>)

\* getRecord(callback): this.connector.get(callback)
getRecord(options) == get(options)

\* postRecord(callback): this.connector.post(callback)
postRecord(options) == post(options)

\* healthcheck(callback): this.getRecord(...)
healthcheck(options) == getRecord(options)

\* connect(): this.healthcheck()
connect(options) == healthcheck(options)

(***************************************************************************)
(* What the HTTP client can hand to its completion callback.               *)
(***************************************************************************)
JString(chunks) == <<Quote>> \o chunks \o <<Quote>>

Member(k, chunks) == JString(<<k>>) \o <<":">> \o JString(chunks)

ResultBody(elements) == <<"{">> \o JString(<<"result">>) \o <<":">> \o elements \o <<"}">>

\* {"result":[{"number":"CHG001","sys_id":"abc","risk":"high"}]}
BodyOneRecord ==
    ResultBody(<<"[", "{">> \o Member("number", <<"CHG001">>) \o <<",">>
               \o Member("sys_id", <<"abc">>) \o <<",">>
               \o Member("risk", <<"high">>) \o <<"}", "]">>)

\* {"result":[{"number":"CHG001","sys_id":"abc","priority":"high","state":"new"},
\*            {"sys_id":"def","number":"CHG002","change_ticket_key":"old"}]}
BodyTwoRecords ==
    ResultBody(<<"[", "{">> \o Member("number", <<"CHG001">>) \o <<",">>
               \o Member("sys_id", <<"abc">>) \o <<",">>
               \o Member("priority", <<"high">>) \o <<",">>
               \o Member("state", <<"new">>) \o <<"}", ",", "{">>
               \o Member("sys_id", <<"def">>) \o <<",">>
               \o Member("number", <<"CHG002">>) \o <<",">>
               \o Member("change_ticket_key", <<"old">>) \o <<"}", "]">>)

\* {"result":[{"sys_id":"abc","active":"true"}]}: a record without number
BodyNoNumber ==
    ResultBody(<<"[", "{">> \o Member("sys_id", <<"abc">>) \o <<",">>
               \o Member("active", <<"true">>) \o <<"}", "]">>)

\* {"result":[]}
BodyEmptyResult == ResultBody(<<"[", "]">>)

\* {"result":{"number":"CHG001","sys_id":"abc"}}: one record, not an array
BodyResultObject ==
    ResultBody(<<"{">> \o Member("number", <<"CHG001">>) \o <<",">>
               \o Member("sys_id", <<"abc">>) \o <<"}">>)

\* {}
BodyNoResult == <<"{", "}">>

\* {"result":[null]}
BodyNullElement == ResultBody(<<"[", "null", "]">>)

\* {"result":[[]]}: an element that is an array, not a record
BodyArrayElement == ResultBody(<<"[", "[", "]", "]">>)

\* null
BodyJsonNull == <<"null">>

\* {"result":[{"number":   (cut short)
BodyTruncated == <<"{">> \o JString(<<"result">>) \o <<":", "[", "{">> \o JString(<<"number">>)

\* <html>Instance Hibernating page</html>
BodyHibernatingPage == <<"<html>", "Instance Hibernating page", "</html>">>

\* {"result":[{"number":"Instance Hibernating page<html>","sys_id":"abc"}]}
BodyHibernatingJson ==
    ResultBody(<<"[", "{">>
               \o Member("number", <<"Instance Hibernating page", "<html>">>) \o <<",">>
               \o Member("sys_id", <<"abc">>) \o <<"}", "]">>)

\* <html>Bad Gateway</html>
BodyHtmlOnly == <<"<html>", "Bad Gateway", "</html>">>

\* {"result":[{"number":"CHG003","sys_id":"ghi","description":"Instance Hibernating page"}]}
BodyMarkerOnly ==
    ResultBody(<<"[", "{">> \o Member("number", <<"CHG003">>) \o <<",">>
               \o Member("sys_id", <<"ghi">>) \o <<",">>
               \o Member("description", <<"Instance Hibernating page">>) \o <<"}", "]">>)

Bodies ==
    { <<>>, BodyOneRecord, BodyTwoRecords, BodyNoNumber, BodyEmptyResult,
      BodyResultObject, BodyNoResult, BodyNullElement, BodyArrayElement,
      BodyJsonNull, BodyTruncated,
      BodyHibernatingPage, BodyHibernatingJson, BodyHtmlOnly, BodyMarkerOnly }

StatusCodes == {122, 199, 200, 201, 299, 300, 404, 500, 520}

TransportError == ErrorObject("ECONNREFUSED")

\* <<error, response>> pairs processRequestResults is applied to.  The HTTP
\* client passes an error with no response; the method is public, so an
\* error together with a response is an input too.
FnInputs ==
    {<<TransportError, Undefined>>}
    \cup { <<e, Response(sc, b)>> : e \in {Null, TransportError},
                                    sc \in StatusCodes, b \in Bodies }

\* the completions the HTTP client delivers in the system specification
SystemResponses ==
    { <<TransportError, Undefined>>,
      <<Null, Response(200, BodyHibernatingPage)>>,
      <<Null, Response(404, BodyOneRecord)>>,
      <<Null, Response(201, BodyTwoRecords)>>,
      <<Null, Response(200, <<>>)>>,
      <<Null, Response(204, <<>>)>>,
      <<Null, Response(200, BodyTruncated)>> }

\* the body argument the HTTP client passes beside the response
BodyOf(response) ==
    IF response.type = "response" THEN Str(response.body) ELSE Undefined

(***************************************************************************)
(* State.                                                                  *)
(***************************************************************************)
VARIABLES
    id,          \* ServiceNowAdapter.id
    props,       \* ServiceNowAdapter.props
    options,     \* ServiceNowConnector.options
    calls,       \* the invocations made so far, each with its effects
    events,      \* the status events emitted, in order
    hostStatus,  \* the status the host derives from the events
    fn           \* one application of processRequestResults

vars == <<id, props, options, calls, events, hostStatus, fn>>

AdapterId == "servicenow-1"

AdapterProperties ==
    [url |-> Str(<<"https://dev.service-now.com">>),
     auth |-> [username |-> Str(<<"admin">>), password |-> Str(<<"secret">>)],
     serviceNowTable |-> Str(<<"change_request">>)]

\* the options object the adapter's constructor hands to the connector
ConnectorOptions(p) ==
    SetField(SetField(SetField(SetField(EmptyFields,
        Key("url"), p.url),
        Key("username"), p.auth.username),
        Key("password"), p.auth.password),
        Key("serviceNowTable"), p.serviceNowTable)

FnIdle == [error |-> Null, response |-> Undefined, applied |-> FALSE, out |-> Undefined]

\* the adapter after its constructor
Constructed ==
    /\ id = AdapterId
    /\ props = AdapterProperties
    /\ options = ConnectorOptions(AdapterProperties)
    /\ calls = <<>>
    /\ events = <<>>
    /\ hostStatus = "UNKNOWN"

Init == Constructed /\ fn = FnIdle

\* an invocation that has issued its request and waits for the completion
NewCall(op, hasCallback, effects) ==
    [op |-> op, hasCallback |-> hasCallback, pc |-> "pending",
     error |-> Undefined, response |-> Undefined,
     connector |-> [called |-> FALSE, data |-> Undefined, error |-> Undefined],
     trail |-> effects]

\* an operation up to its call of request(): its effects so far, and the
\* connector's options as the operation leaves them
Start(op, hasCallback, effects, optionsAfter) ==
    /\ Len(calls) < MaxCalls
    /\ calls' = Append(calls, NewCall(op, hasCallback, effects))
    /\ options' = optionsAfter
    /\ UNCHANGED <<id, props, events, hostStatus, fn>>

Connect == Start("connect", FALSE, connect(options), optionsAfterGet(options))

Healthcheck ==
    \E hasCallback \in BOOLEAN :
        Start("healthcheck", hasCallback, healthcheck(options), optionsAfterGet(options))

GetRecord == Start("getRecord", TRUE, getRecord(options), optionsAfterGet(options))

PostRecord == Start("postRecord", TRUE, postRecord(options), optionsAfterPost(options))

Get == Start("get", TRUE, get(options), optionsAfterGet(options))

Post == Start("post", TRUE, post(options), optionsAfterPost(options))

IsHealthcheck(c) == c.op \in {"connect", "healthcheck"}

\* the effects of the completion callback of call c: processRequestResults,
\* then the callback chain back to the caller
Completion_firstResponseKept(c, error, response) ==
    LET earlier == { j \in 1..Len(calls) : calls[j].pc = "done" }
        first == CHOOSE j \in earlier : \A k \in earlier : j <= k
        e == IF earlier = {} THEN error ELSE calls[first].error
        resp == IF earlier = {} THEN response ELSE calls[first].response
    IN
    With(processRequestResults(e, resp, BodyOf(resp)), LAMBDA r :
        IF r.threw THEN [pc |-> "faulted", connector |-> c.connector, effects |-> r.log]
        ELSE [pc |-> "done",
              connector |-> [called |-> TRUE, data |-> r.data, error |-> r.error],
              effects |-> r.log \o (IF IsHealthcheck(c)
                                    THEN healthcheckResult(id, c.hasCallback, r.data, r.error)
                                    ELSE <<CallbackEffect(r.data, r.error)>>)])

Completion(c, error, response) ==
    With(processRequestResults(error, response, BodyOf(response)), LAMBDA r :
        IF r.threw THEN [pc |-> "faulted", connector |-> c.connector, effects |-> r.log]
        ELSE [pc |-> "done",
              connector |-> [called |-> TRUE, data |-> r.data, error |-> r.error],
              effects |-> r.log \o (IF IsHealthcheck(c)
                                    THEN healthcheckResult(id, c.hasCallback, r.data, r.error)
                                    ELSE <<CallbackEffect(r.data, r.error)>>)])

IsEmit(e) == e.kind = "emit"

\* the HTTP client completes the request of call i
RequestCompletes(i) ==
    /\ calls[i].pc = "pending"
    /\ \E in \in SystemResponses :
         \E done \in {Completion(calls[i], in[1], in[2])} :
         LET emitted == SelectSeq(done.effects, IsEmit)
         IN  /\ calls' = [calls EXCEPT ![i] =
                    [@ EXCEPT !.pc = done.pc, !.error = in[1], !.response = in[2],
                              !.connector = done.connector,
                              !.trail = @ \o done.effects]]
             /\ events' = events \o emitted
             /\ hostStatus' = IF emitted = <<>> THEN hostStatus
                              ELSE emitted[Len(emitted)].event
    /\ UNCHANGED <<id, props, options, fn>>

Next ==
    \/ Connect
    \/ Healthcheck
    \/ GetRecord
    \/ PostRecord
    \/ Get
    \/ Post
    \/ \E i \in 1..Len(calls) : RequestCompletes(i)

Spec == Init /\ [][Next]_vars

(***************************************************************************)
(* processRequestResults as a function of its arguments.                   *)
(***************************************************************************)
InitFn ==
    /\ Constructed
    /\ \E in \in FnInputs :
         fn = [error |-> in[1], response |-> in[2], applied |-> FALSE, out |-> Undefined]

ApplyProcessRequestResults ==
    /\ ~fn.applied
    /\ fn' = [fn EXCEPT !.applied = TRUE,
                        !.out = processRequestResults(fn.error, fn.response,
                                                      BodyOf(fn.response))]
    /\ UNCHANGED <<id, props, options, calls, events, hostStatus>>

NextFn == ApplyProcessRequestResults

SpecFn == InitFn /\ [][NextFn]_vars

(***************************************************************************)
(* Properties of processRequestResults (under SpecFn).                     *)
(***************************************************************************)
Range(seq) == { seq[i] : i \in 1..Len(seq) }

HasResponse == fn.response.type = "response"

Is2xx(statusCode) == statusCode \in 200..299

\* status 200 and both markers in the body
Degraded(response) ==
    /\ response.statusCode = 200
    /\ \E i \in 1..Len(response.body) : response.body[i] = "Instance Hibernating page"
    /\ \E i \in 1..Len(response.body) : response.body[i] = "<html>"

\* C1: when the transport error is non-null the callback gets (null, error)
\* whatever the response is, and neither the hibernating check nor the
\* status-code check is evaluated.
C1_TransportErrorFirst ==
    (fn.applied /\ fn.error # Null) =>
        /\ ~fn.out.threw
        /\ fn.out.data = Null
        /\ fn.out.error = fn.error
        /\ Range(fn.out.checks) \cap {"isHibernating", "validResponseRegex"} = {}

\* a transport error that comes with a hibernating page has been processed
C1_Witness ==
    /\ fn.applied
    /\ fn.error = TransportError
    /\ fn.response = Response(200, BodyHibernatingPage)

C3_BadStatusCode ==
    (fn.applied /\ HasResponse /\ ~Is2xx(fn.response.statusCode)) =>
        /\ ~fn.out.threw
        /\ fn.out.data = Null
        /\ fn.error = Null => fn.out.error = fn.response

\* a 404 whose body is the hibernating page has been processed
C3_Witness ==
    /\ fn.applied
    /\ fn.error = Null
    /\ fn.response = Response(404, BodyHibernatingPage)

\* the result array of a body, when the body is JSON for an object with one
RawResults(body) ==
    With(JSONparse(body), LAMBDA j :
        IF ~j.threw /\ j.val.type = "object"
           /\ GetField(j.val.fields, Key("result")).type = "array"
        THEN j.val.fields[Key("result")].items
        ELSE <<>>)

\* no transport error, not degraded, 2xx, and a non-empty result array of
\* records (mappings)
SuccessWithRecords ==
    /\ fn.applied /\ fn.error = Null /\ HasResponse
    /\ ~Degraded(fn.response)
    /\ Is2xx(fn.response.statusCode)
    /\ RawResults(fn.response.body) # <<>>
    /\ \A i \in 1..Len(RawResults(fn.response.body)) :
         RawResults(fn.response.body)[i].type = "object"

\* C4: a successful response with a non-empty result array is delivered as
\* one element per input element, in order, each with change_ticket_number
\* the input's number and change_ticket_key the input's sys_id, and without
\* number, sys_id and the fields of the removal set.
C4_RenamedAndRemoved ==
    SuccessWithRecords =>
        LET raw == RawResults(fn.response.body)
            out == fn.out.data
        IN  /\ ~fn.out.threw
            /\ fn.out.error = Null
            /\ out.type = "array"
            /\ Len(out.items) = Len(raw)
            /\ \A i \in 1..Len(raw) :
                 /\ out.items[i].type = "object"
                 /\ Key("change_ticket_number") \in DOMAIN out.items[i].fields
                 /\ Key("change_ticket_key") \in DOMAIN out.items[i].fields
                 /\ out.items[i].fields[Key("change_ticket_number")]
                      = GetField(raw[i].fields, Key("number"))
                 /\ out.items[i].fields[Key("change_ticket_key")]
                      = GetField(raw[i].fields, Key("sys_id"))
                 /\ (DOMAIN out.items[i].fields) \cap DeletedFields = {}

\* two records, one of them with a field of the removal set, were delivered
C4_Witness ==
    /\ SuccessWithRecords
    /\ fn.response = Response(201, BodyTwoRecords)
    /\ Len(fn.out.data.items) = 2
    /\ Key("state") \in DOMAIN RawResults(BodyTwoRecords)[1].fields

\* the fields a normalized record has by construction
Renamed == {Key("change_ticket_number"), Key("change_ticket_key")}

\* C10 as stated: every normalized record has exactly the two renamed fields.
C10_ExactlyTwoFields ==
    SuccessWithRecords =>
        \A i \in 1..Len(fn.out.data.items) :
            DOMAIN fn.out.data.items[i].fields = Renamed

\* C10 amended: a normalized record has the two renamed fields and, with
\* their values unchanged, exactly the raw fields outside the removal set.
C10_KeepsOtherFields ==
    SuccessWithRecords =>
        LET raw == RawResults(fn.response.body) IN
        /\ ~fn.out.threw
        /\ Len(fn.out.data.items) = Len(raw)
        /\ \A i \in 1..Len(raw) :
             LET kept == (DOMAIN raw[i].fields) \ (DeletedFields \cup Renamed) IN
             /\ DOMAIN fn.out.data.items[i].fields = Renamed \cup kept
             /\ \A k \in kept : fn.out.data.items[i].fields[k] = raw[i].fields[k]

\* a record with a field outside the removal set (priority) was delivered
C10_Witness ==
    /\ SuccessWithRecords
    /\ fn.response = Response(200, BodyTwoRecords)
    /\ Key("priority") \in DOMAIN fn.out.data.items[1].fields
    /\ Key("priority") \notin DeletedFields

(***************************************************************************)
(* Properties of the adapter and the connector together (under Spec).      *)
(***************************************************************************)
IsCallback(e) == e.kind = "callback"

IsRequest(e) == e.kind = "request"

Emits(c) == SelectSeq(c.trail, IsEmit)

Callbacks(c) == SelectSeq(c.trail, IsCallback)

Requests(c) == SelectSeq(c.trail, IsRequest)

Healthchecks == { i \in 1..Len(calls) : IsHealthcheck(calls[i]) }

\* the completion is a transport failure, a hibernating instance or a
\* status code outside 2xx
FailureResponse(c) ==
    \/ c.error # Null
    \/ /\ c.response.type = "response"
       /\ Degraded(c.response) \/ ~Is2xx(c.response.statusCode)

\* C5: a healthcheck whose connector result carries an error emits exactly
\* one OFFLINE event with {id: adapter id}, no ONLINE event, and logs at
\* error severity with the adapter id; one whose connector result carries no
\* error emits exactly one ONLINE event with {id: adapter id} and no OFFLINE.
C5_OneStatusEvent ==
    /\ \A i \in Healthchecks :
         LET c == calls[i] IN
         /\ (c.pc # "pending" /\ FailureResponse(c)) =>
                c.connector.called /\ c.connector.error # Null
         /\ (c.connector.called /\ c.connector.error # Null) =>
                /\ Emits(c) = <<EmitEffect("OFFLINE", [id |-> id])>>
                /\ \E k \in 1..Len(c.trail) :
                     /\ c.trail[k].kind = "log" /\ c.trail[k].level = "error"
                     /\ "id" \in DOMAIN c.trail[k] /\ c.trail[k].id = id
         /\ (c.connector.called /\ c.connector.error = Null) =>
                Emits(c) = <<EmitEffect("ONLINE", [id |-> id])>>
    /\ Len(events) = Cardinality({ i \in Healthchecks : calls[i].connector.called })

\* a healthcheck met a hibernating instance and its event reached the host
C5_Witness ==
    \E i \in Healthchecks :
        /\ calls[i].pc = "done"
        /\ calls[i].response = Response(200, BodyHibernatingPage)
        /\ events = <<EmitEffect("OFFLINE", [id |-> id])>>

\* the callback effects of a healthcheck come after its status event
CallbackAfterEvent(c) ==
    \A j, k \in 1..Len(c.trail) :
        (IsEmit(c.trail[j]) /\ IsCallback(c.trail[k])) => j < k

\* what C6 says of a healthcheck, with the second argument expected on success
HealthcheckCallback(c, onSuccess) ==
    /\ (c.hasCallback /\ c.connector.called) =>
          /\ Len(Emits(c)) = 1
          /\ CallbackAfterEvent(c)
          /\ Callbacks(c) =
               <<CallbackEffect(c.connector.data,
                                IF c.connector.error # Null THEN c.connector.error
                                ELSE onSuccess)>>
    /\ ~c.hasCallback => (Callbacks(c) = <<>> /\ (c.connector.called => c.pc = "done"))

MethodOf(op) == IF op \in {"post", "postRecord"} THEN "POST" ELSE "GET"

\* C7: every invocation issues exactly one HTTP request, GET for get,
\* getRecord, healthcheck and connect, POST for post and postRecord, and no
\* further request after its completion, whatever the outcome.
C7_OneRequest ==
    \A i \in 1..Len(calls) :
        /\ Len(Requests(calls[i])) = 1
        /\ Requests(calls[i])[1].options.method = Str(<<MethodOf(calls[i].op)>>)

\* a POST that ended with a status outside 2xx has issued its one request
C7_Witness ==
    \E i \in 1..Len(calls) :
        /\ calls[i].op = "postRecord"
        /\ calls[i].pc = "done"
        /\ calls[i].response = Response(404, BodyOneRecord)
        /\ Len(Requests(calls[i])) = 1

\* C8 as stated: whenever the HTTP call of a get or post has completed, the
\* callback has been invoked exactly once; whenever that of a connect or
\* healthcheck has completed, a status event has been emitted.
C8_AlwaysResolved ==
    \A i \in 1..Len(calls) :
        calls[i].pc # "pending" =>
            IF IsHealthcheck(calls[i])
            THEN Len(Emits(calls[i])) = 1
            ELSE Len(Callbacks(calls[i])) = 1

Last(seq) == seq[Len(seq)]

\* the host's status is that of the last event; it is UNKNOWN exactly as
\* long as no healthcheck has run its result handler; and a pending
\* healthcheck can still end either way, whatever the status is now
StatusInv ==
    /\ hostStatus = IF events = <<>> THEN "UNKNOWN" ELSE Last(events).event
    /\ (\A i \in Healthchecks : calls[i].pc # "done") <=> hostStatus = "UNKNOWN"
    /\ hostStatus \in {"UNKNOWN", "ONLINE", "OFFLINE"}
    /\ \A i \in Healthchecks :
         calls[i].pc = "pending" =>
            /\ ENABLED (RequestCompletes(i) /\ hostStatus' = "ONLINE")
            /\ ENABLED (RequestCompletes(i) /\ hostStatus' = "OFFLINE")

\* a step changes the status only by a healthcheck running its result
\* handler, and then to the status its own response decides
StatusStep ==
    IF \E i \in Healthchecks : calls[i].pc = "pending" /\ calls'[i].pc = "done"
    THEN \A i \in Healthchecks :
            (calls[i].pc = "pending" /\ calls'[i].pc = "done") =>
                hostStatus' = IF FailureResponse(calls'[i]) THEN "OFFLINE" ELSE "ONLINE"
    ELSE hostStatus' = hostStatus

EmptySuccess(c) ==
    /\ c.pc # "pending"
    /\ c.error = Null
    /\ c.response.type = "response"
    /\ Is2xx(c.response.statusCode)
    /\ c.response.body = <<>>

\* C11: with no transport error, a 2xx status and an empty body the callback
\* gets (null, null); a healthcheck on such a response takes the success
\* branch and emits ONLINE, not OFFLINE.
C11_EmptyBodyIsSuccess ==
    \A i \in 1..Len(calls) :
        EmptySuccess(calls[i]) =>
            /\ calls[i].pc = "done"
            /\ calls[i].connector = [called |-> TRUE, data |-> Null, error |-> Null]
            /\ ~IsHealthcheck(calls[i]) =>
                  Callbacks(calls[i]) = <<CallbackEffect(Null, Null)>>
            /\ IsHealthcheck(calls[i]) =>
                  Emits(calls[i]) = <<EmitEffect("ONLINE", [id |-> id])>>

\* a healthcheck got 204 with an empty body and the host saw ONLINE
C11_Witness ==
    \E i \in Healthchecks :
        /\ EmptySuccess(calls[i])
        /\ calls[i].response = Response(204, <<>>)
        /\ events = <<EmitEffect("ONLINE", [id |-> id])>>

\* the request options every call is to use, from the configuration the
\* adapter was constructed with
ConfiguredRequest(op) ==
    [method |-> Str(<<MethodOf(op)>>),
     auth |-> [user |-> AdapterProperties.auth.username,
               pass |-> AdapterProperties.auth.password],
     baseUrl |-> AdapterProperties.url,
     uri |-> Str(<<"/api/now/table/">> \o AdapterProperties.serviceNowTable.chunks)]

\* C12: the connector's configuration (url, username, password,
\* serviceNowTable) is what the constructor set, after any sequence of
\* operations and completions, and every request carries the method of its
\* own operation with the configured path and credentials: a POST does not
\* change what a later GET uses, nor a GET what a later POST uses.
C12_ConfigurationUnchanged ==
    /\ options = ConnectorOptions(AdapterProperties)
    /\ props = AdapterProperties
    /\ \A i \in 1..Len(calls) :
         \A k \in 1..Len(Requests(calls[i])) :
             Requests(calls[i])[k].options = ConfiguredRequest(calls[i].op)

\* a POST has completed and a later GET has issued its request
C12_Witness ==
    /\ Len(calls) = 2
    /\ calls[1].op = "post" /\ calls[1].pc = "done"
    /\ calls[2].op = "get"
    /\ Requests(calls[1])[1].options.method = Str(<<"POST">>)
    /\ Requests(calls[2])[1].options.method = Str(<<"GET">>)

\* the error the response of call c stands for, by the three failure cases
OwnError(c) ==
    IF c.error # Null THEN c.error
    ELSE IF Degraded(c.response) THEN Str(<<"Hibernating instance">>)
    ELSE IF ~Is2xx(c.response.statusCode) THEN c.response
    ELSE Null

\* the data the response of call c stands for
OwnData(c) == processRequestResults(c.error, c.response, BodyOf(c.response)).data

\* the status event the response of call c stands for
OwnEvent(c) ==
    EmitEffect(IF FailureResponse(c) THEN "OFFLINE" ELSE "ONLINE", [id |-> id])

\* every call whose result handler ran has handed on the outcome of its own
\* response, and a healthcheck has emitted the event of its own response
OwnOutcome ==
    \A i \in 1..Len(calls) :
        LET c == calls[i] IN
        c.pc = "done" =>
            /\ c.connector = [called |-> TRUE, data |-> OwnData(c), error |-> OwnError(c)]
            /\ c.hasCallback => Callbacks(c) = <<CallbackEffect(OwnData(c), OwnError(c))>>
            /\ IsHealthcheck(c) => Emits(c) = <<OwnEvent(c)>>

Completes(i) == calls[i].pc = "pending" /\ calls'[i].pc # "pending"

\* a completion touches its own call only, and a healthcheck's event is
\* appended at the step its response completes
OwnStep ==
    /\ \A j \in 1..Len(calls) : ~Completes(j) => calls'[j] = calls[j]
    /\ IF \E i \in 1..Len(calls) : Completes(i) /\ IsHealthcheck(calls[i]) /\ calls'[i].pc = "done"
       THEN \A i \in 1..Len(calls) :
                (Completes(i) /\ IsHealthcheck(calls[i]) /\ calls'[i].pc = "done") =>
                    events' = Append(events, OwnEvent(calls'[i]))
       ELSE events' = events

=============================================================================
